---- MODULE Spec2Model ----
(***************************************************************************)
(* FRIDAY voice pipeline: the orchestrator (FRIDAYMainWindow), the wake    *)
(* listener (FridayWakeWordDetector), the synthesis chain (AIEngine) and   *)
(* the recorder / playback engine (AudioEngine), as state machines.        *)
(*                                                                         *)
(* Threads are modelled by their position (pc); one action is one step of  *)
(* a thread between two accesses to shared state, or one Tk callback.      *)
(***************************************************************************)
EXTENDS Integers, Sequences, FiniteSets, TLC

(* ------------------------------ bounds -------------------------------- *)
\* recording worker threads alive at once
MaxRecWorkers == 2
\* speak_async worker threads alive at once
MaxSpeakWorkers == 2
\* process_message threads alive at once
MaxPM == 1
\* callbacks pending in the Tk event queue (root.after)
MaxAfter == 2
\* recognition worker threads (_process_audio_chunk) alive at once
MaxRecog == 1
\* _continuous_listen threads alive at once
MaxListeners == 1
\* _continuous_listen threads alive at once when start_listening and
\* stop_listening are called on the detector directly
MaxLoops == 2

\* max_duration of a record_audio_improved call, in frame periods of
\* 1024 samples at 16 kHz
MaxDuration == 45
\* frame periods one frame read can take
MaxReadTime == 2
\* frames read after a stop request that are counted one by one
MaxAfterStop == 2
\* input streams left open by earlier record_audio_improved calls
MaxLeakedStreams == 1
\* turns appended to conversation_history in a run
MaxTurns == 24
\* frames a voice cycle's recording can hold
MaxCycleFrames == 2
\* length of the texts handed to _clean_text_for_tts
MaxTextLen == 4
\* temporary files created in a run
MaxTempFiles == 5

RecIds   == 1 .. MaxRecWorkers
SpeakIds == 1 .. MaxSpeakWorkers
RecogIds == 1 .. MaxRecog
ListenIds == 1 .. MaxListeners
LoopIds == 1 .. MaxLoops

VARIABLES
    \* FRIDAYMainWindow
    is_recording,      \* main_window.py:55
    is_speaking,       \* main_window.py:56
    wake_word_active,  \* main_window.py:57
    afterQueue,        \* pending root.after(0, start_automatic_voice_recording);
                       \* each entry remembers whether the orchestrator was
                       \* recording or speaking when the trigger arrived
    rec,               \* recording worker threads: [pc, kind]
    speak,             \* speak_async worker threads: pc
    pm,                \* number of process_message threads in flight
    \* AudioEngine
    ae_is_recording,   \* audio_engine.py:55
    recording_stopped, \* audio_engine.py:57
    \* FridayWakeWordDetector
    is_listening,      \* friday_wake_word.py:28
    listen,            \* _continuous_listen threads: pc
    recog,             \* _process_audio_chunk worker threads: pc
    wake_phrases,      \* friday_wake_word.py:29
    phrase_msg,        \* the last message add_wake_phrase / remove_wake_phrase
                       \* printed
    \* AIEngine
    tts_mode,          \* ai_engine.py:57
    tts_client,        \* ai_engine.py:53 (TRUE when an ElevenLabs client exists)
    conversation_history, \* ai_engine.py:55, turns as [role, n]
    turns,             \* number of turns appended so far (n of the last one)
    \* one _clean_text_for_tts call
    tts_text,          \* its argument, a sequence of characters
    clean_text,        \* the value it returned
    provider_text,     \* the text text_to_speech handed to a provider for
                       \* tts_text (None: no provider was called)
    \* one voice cycle (a recording worker) followed step by step
    cycle_pc,          \* "idle", "recorded", "transcribed", "responding",
                       \* "synthesizing", "synthesized", "done"
    audio_data,        \* what record_audio_improved returned
    user_input,        \* what transcribe_audio returned
    cycle_log,         \* the external calls of the cycle, in order
    transcription,     \* the last transcribe_audio call: its argument,
                       \* whether the service was called, its return value
    \* the temporary files of transcribe_audio, _gtts_tts and _local_tts
    temp_files,        \* [pc, op, made, dir]: the operation in progress, the
                       \* number of files created so far, the files on disk
    \* FridayWakeWordDetector, start_listening and stop_listening calls
    listen_thread,     \* friday_wake_word.py:35 (0: None)
    joining,           \* stop_listening is inside listen_thread.join
    heard,             \* the last _contains_wake_word call: its transcript,
                       \* the value returned, and whether a phrase of
                       \* wake_phrases occurs in the transcript or the
                       \* transcript in a phrase
    \* one speak_async run followed step by step
    sa_pc,             \* "idle", "synthesized" (text_to_speech returned), "done"
    call,              \* the last text_to_speech call: mode at its start, text,
                       \* provider outcomes, providers attempted, value returned
    play,              \* what play_audio_improved did for that value
    \* one record_audio_improved call followed frame by frame
    rr_pc,             \* "idle", "spawned" (worker started, call not yet at
                       \* its loop), "loop", "closing", "returned"
    nframes,           \* len(frames)
    all_voiced,        \* every frame in frames was above the energy threshold
    silence_count,     \* audio_engine.py:155
    elapsed,           \* time.time() - start_time, in frame periods
    stop_reason,       \* why the loop ended
    result,            \* the value record_audio_improved returned
    after_stop,        \* frames read since stop_recording was requested for
                       \* the session (-1: no request)
    open_streams,      \* input streams opened by pa.open and not closed
    last_voiced        \* len(frames) when the last frame above the energy
                       \* threshold was appended (0: none so far)

orchVars == <<is_recording, is_speaking, wake_word_active, afterQueue, rec,
              speak, pm, ae_is_recording, recording_stopped, is_listening,
              listen, recog>>
ttsVars  == <<tts_mode, tts_client>>
synthVars == <<sa_pc, call, play>>
recVars  == <<rr_pc, nframes, all_voiced, silence_count, elapsed, stop_reason,
              result, after_stop, open_streams, last_voiced>>
phraseVars == <<wake_phrases, phrase_msg>>
historyVars == <<conversation_history, turns>>
cleanVars == <<tts_text, clean_text, provider_text>>
cycleVars == <<cycle_pc, audio_data, user_input, cycle_log, transcription>>
\* every variable above but the resources declared below
baseVars == <<orchVars, ttsVars, synthVars, recVars, phraseVars, historyVars,
              cleanVars, cycleVars>>
resourceVars == <<temp_files, listen_thread, joining, heard>>
engineVars == <<historyVars, cleanVars, cycleVars, resourceVars>>
detailVars == <<synthVars, recVars, phraseVars, engineVars>>
vars     == <<orchVars, ttsVars, detailVars>>

(* --------------------------- synthesis chain -------------------------- *)
\* Order of preference of the synthesis modes (most preferred first).
ModeRank(m) ==
    CASE m = "elevenlabs" -> 0
      [] m = "gtts"       -> 1
      [] m = "local"      -> 2
      [] m = "system"     -> 3

Modes == {"elevenlabs", "gtts", "local", "system"}

\* Python values returned by the providers.
None     == [kind |-> "none", len |-> 0]
Bytes(n) == [kind |-> "bytes", len |-> n]
\* b"system_tts_played": an ordinary 17-byte bytes object
SentinelLen == 17
Sentinel == [kind |-> "sentinel", len |-> SentinelLen]
\* the AttributeError that leaves text_to_speech when its except branch
\* calls the undefined self._switch_to_next_provider (ai_engine.py:324)
Raised   == [kind |-> "exception", len |-> 0]
\* `if audio_data:` on an Optional[bytes]
Truthy(a) == a.kind \notin {"none", "exception"} /\ a.len > 0

\* `len(audio_data) > 1000` in _gtts_tts and _local_tts
MinAudioBytes == 1000

\* What one provider call can produce: an exception ("raise"), a missing
\* engine ("missing", pyttsx3 not importable), or data of some length.
ByteSizes == {0, MinAudioBytes, MinAudioBytes + 1}
Raise     == [st |-> "raise", len |-> 0]
Missing   == [st |-> "missing", len |-> 0]
Data(n)   == [st |-> "data", len |-> n]
CloudOutcomes == {Raise} \cup {Data(n) : n \in ByteSizes}
LocalOutcomes == {Raise, Missing} \cup {Data(n) : n \in ByteSizes}
\* el, gt, lo: what the ElevenLabs, gTTS and pyttsx3 calls would produce;
\* sys: whether the native speech command succeeds; pre: whether a
\* statement of text_to_speech ahead of the dispatch raises (ai_engine.py:
\* 309-310), in which case no provider is called
Outcomes ==
    [el : CloudOutcomes, gt : CloudOutcomes, lo : LocalOutcomes,
     sys : BOOLEAN, pre : {FALSE}]
    \cup {[el |-> Raise, gt |-> Raise, lo |-> Raise, sys |-> FALSE,
           pre |-> TRUE]}

\* Texts handed to text_to_speech, as sequences of characters.
Texts == {<<>>, <<" ">>, <<"h", "i">>}
\* `not text or not text.strip()`
IsBlank(text) == \A i \in 1 .. Len(text) : text[i] = " "

\* A step of the chain yields the returned value, the mode left behind and
\* the providers attempted so far, in order.
Result(res, mode, att) == [res |-> res, mode |-> mode, att |-> att]

\* AIEngine._system_tts
SystemTts(mode, att, o) ==
    Result(IF o.sys THEN Sentinel ELSE None, mode, Append(att, "system"))

\* the size test of _gtts_tts / _local_tts
ValidAudio(n) == n > MinAudioBytes

\* _local_tts falling back to gTTS before the native speech
LocalTtsThenGtts(mode, att, o) ==
    IF o.lo.st = "data" /\ ValidAudio(o.lo.len)
    THEN Result(Bytes(o.lo.len), mode, Append(att, "local"))
    ELSE SystemTts(mode, Append(Append(att, "local"), "gtts"), o)

\* AIEngine._local_tts
LocalTts(mode, att, o) ==
    IF o.lo.st = "missing"
    THEN SystemTts(mode, att, o)
    ELSE IF o.lo.st = "data" /\ ValidAudio(o.lo.len)
         THEN Result(Bytes(o.lo.len), mode, Append(att, "local"))
         ELSE SystemTts(mode, Append(att, "local"), o)

\* the mode _elevenlabs_tts leaves behind when the ElevenLabs call fails
ElevenlabsFailMode == "local"

\* AIEngine._elevenlabs_tts: any non-empty chunk list is returned as it is
ElevenlabsTts(mode, att, o) ==
    IF o.el.st = "data"
    THEN Result(Bytes(o.el.len), mode, Append(att, "elevenlabs"))
    ELSE LocalTts(ElevenlabsFailMode, Append(att, "elevenlabs"), o)

\* AIEngine._gtts_tts: a failure goes to _system_tts, tts_mode is not written
GttsTts(mode, att, o) ==
    IF o.gt.st = "data" /\ ValidAudio(o.gt.len)
    THEN Result(Bytes(o.gt.len), mode, Append(att, "gtts"))
    ELSE SystemTts(mode, Append(att, "gtts"), o)

\* a dispatch that goes back to ElevenLabs whenever a client exists
DispatchClientFirst(mode, client) ==
    IF client THEN "elevenlabs"
    ELSE IF mode = "gtts" THEN "gtts"
    ELSE "system"

\* the provider text_to_speech dispatches to
Dispatch(mode, client) ==
    IF mode = "elevenlabs" /\ client THEN "elevenlabs"
    ELSE IF mode = "gtts" THEN "gtts"
    ELSE "system"

\* AIEngine.text_to_speech
TextToSpeech(text, mode, client, o) ==
    IF IsBlank(text) THEN Result(None, mode, <<>>)
    ELSE IF o.pre THEN Result(Raised, mode, <<>>)
    ELSE CASE Dispatch(mode, client) = "elevenlabs" -> ElevenlabsTts(mode, <<>>, o)
           [] Dispatch(mode, client) = "gtts"       -> GttsTts(mode, <<>>, o)
           [] OTHER                                  -> SystemTts(mode, <<>>, o)

\* everything a text_to_speech call can return and leave behind
SynthesisTable ==
    [mode \in Modes, client \in BOOLEAN |->
        {[res |-> TextToSpeech(text, mode, client, o).res,
          mode |-> TextToSpeech(text, mode, client, o).mode] :
            text \in Texts, o \in Outcomes}]
SynthesisResults(mode, client) == SynthesisTable[mode, client]

(* ------------------------------ playback ------------------------------ *)
\* What the playback backends would do: pg is "absent" (HAS_PYGAME false),
\* "fail" or "ok"; sc and da tell whether the system command and the
\* default-application handler report success; wr whether the temporary
\* file can be written.
PlayOutcomes == [wr : BOOLEAN, pg : {"absent", "fail", "ok"}, sc : BOOLEAN,
                 da : BOOLEAN]

\* file is the state of the temporary file ("none", "exists", "deleted"),
\* cleanup tells whether a cleanup_file thread is alive
\* reports holds what each backend attempted returned; waited tells whether
\* the call returned only once the clip had been rendered to its end;
\* rendering tells whether a player that was handed the file is still
\* rendering it
NotPlayed == [called |-> FALSE, wrote |-> FALSE, tried |-> <<>>, ok |-> FALSE,
              file |-> "none", cleanup |-> FALSE, reports |-> <<>>,
              waited |-> FALSE, notice |-> "none", rendering |-> FALSE]

\* a chain that goes through every backend whatever the earlier ones report
BackendsTriedAll(po) ==
    (IF po.pg = "absent" THEN <<>> ELSE <<"pygame">>)
    \o <<"system_command", "default_app">>

\* the backends play_audio_improved attempts, in order, for outcomes po
BackendsTried(po) ==
    (IF po.pg = "absent" THEN <<>> ELSE <<"pygame">>)
    \o (IF po.pg = "ok" THEN <<>>
        ELSE <<"system_command">>
             \o (IF po.sc THEN <<>> ELSE <<"default_app">>))

\* what backend b returns for outcomes po
BackendReport(b, po) ==
    CASE b = "pygame"         -> po.pg = "ok"
      [] b = "system_command" -> po.sc
      [] b = "default_app"    -> po.da

\* what the backends attempted returned, in the order of the attempts
BackendReports(po) ==
    [i \in 1 .. Len(BackendsTried(po)) |->
        BackendReport(BackendsTried(po)[i], po)]

\* _play_with_pygame returns once pygame.mixer.music.get_busy() is false
\* (audio_engine.py:441-442); the other backends only start a player
WaitsForClip(po) == po.pg = "ok"

\* _play_with_system_command and _play_with_default_app hand the file to
\* a player that runs in the background (a winsound thread, `start`, or a
\* command ending in `&`) and return at once
RendersInBackground(po) == po.pg # "ok" /\ (po.sc \/ po.da)

\* the early return of play_audio_improved (audio_engine.py:214)
NothingToPlay(audio) == ~Truthy(audio)

\* AudioEngine.play_audio_improved
PlayAudioImproved(audio, po) ==
    IF NothingToPlay(audio)
    THEN [called |-> TRUE, wrote |-> FALSE, tried |-> <<>>, ok |-> FALSE,
          file |-> "none", cleanup |-> FALSE, reports |-> <<>>,
          waited |-> FALSE, notice |-> "none", rendering |-> FALSE]
    ELSE IF ~po.wr
    THEN \* NamedTemporaryFile(delete=False) created the file, write raised:
         \* the outer except returns False
         [called |-> TRUE, wrote |-> FALSE, tried |-> <<>>, ok |-> FALSE,
          file |-> "exists", cleanup |-> FALSE, reports |-> <<>>,
          waited |-> FALSE, notice |-> "none", rendering |-> FALSE]
    ELSE [called |-> TRUE, wrote |-> TRUE, tried |-> BackendsTried(po),
          ok |-> po.pg = "ok" \/ po.sc \/ po.da,
          file |-> "exists", cleanup |-> TRUE,
          reports |-> BackendReports(po), waited |-> WaitsForClip(po),
          notice |-> "none", rendering |-> RendersInBackground(po)]

(* ----------------------- one speak_async run -------------------------- *)
NoOutcome == [el |-> Raise, gt |-> Raise, lo |-> Raise, sys |-> FALSE,
              pre |-> FALSE]

InitSynth ==
    /\ sa_pc = "idle"
    /\ call = [start |-> tts_mode, text |-> <<>>, o |-> NoOutcome,
               att |-> <<>>, res |-> None]
    /\ play = NotPlayed

\* speak_async: audio_data = self.ai_engine.text_to_speech(text)
SynthesizeCall ==
    /\ sa_pc \in {"idle", "done"}
    /\ \E text \in Texts, o \in Outcomes :
         LET r == TextToSpeech(text, tts_mode, tts_client, o) IN
           /\ tts_mode' = r.mode
           /\ call' = [start |-> tts_mode, text |-> text, o |-> o,
                       att |-> r.att, res |-> r.res]
    /\ sa_pc' = "synthesized"
    /\ play' = NotPlayed
    /\ UNCHANGED <<orchVars, tts_client, recVars, phraseVars, engineVars>>

\* the system message speak_async posts (main_window.py:1075-1082) for the
\* value text_to_speech returned and the value play_audio_improved returned
FailureNotice(audio, success) ==
    CASE audio.kind = "exception" -> "system_error"
      [] ~Truthy(audio)           -> "generation_failed"
      [] ~success                 -> "playback_failed"
      [] OTHER                    -> "none"

\* speak_async: `if audio_data:` play_audio_improved(audio_data), else the
\* "Speech generation failed" notification
PlayCall ==
    /\ sa_pc = "synthesized"
    /\ IF Truthy(call.res)
       THEN \E po \in PlayOutcomes :
              play' = [PlayAudioImproved(call.res, po) EXCEPT
                         !.notice = FailureNotice(call.res,
                                        PlayAudioImproved(call.res, po).ok)]
       ELSE play' = [NotPlayed EXCEPT
                       !.notice = FailureNotice(call.res, FALSE)]
    /\ sa_pc' = "done"
    /\ UNCHANGED <<orchVars, ttsVars, call, recVars, phraseVars, engineVars>>

\* the cleanup_file thread of play_audio_improved: after time.sleep(2) the
\* file is unlinked; an exception of os.unlink is swallowed
CleanupFile ==
    /\ play.cleanup
    /\ \E unlinked \in BOOLEAN :
         play' = [play EXCEPT !.cleanup = FALSE,
                              !.file = IF unlinked THEN "deleted" ELSE @]
    /\ UNCHANGED <<orchVars, ttsVars, sa_pc, call, recVars, phraseVars,
                   engineVars>>

\* the background player comes to the end of the clip
PlayerDone ==
    /\ play.rendering
    /\ play' = [play EXCEPT !.rendering = FALSE]
    /\ UNCHANGED <<orchVars, ttsVars, sa_pc, call, recVars, phraseVars,
                   engineVars>>

(* ------------------------ one recording call ------------------------- *)
\* silence_threshold (audio_engine.py:154)
silence_threshold == 30
\* min_recording_chunks (audio_engine.py:156)
min_recording_chunks == 10
\* `volume > 500` (audio_engine.py:172)
EnergyThreshold == 500
\* peak amplitudes of a frame
Volumes == {0, EnergyThreshold, EnergyThreshold + 1}

\* the orchestrator and detector state a recorder call leaves alone
recFrame == <<is_recording, is_speaking, wake_word_active, afterQueue, rec,
              speak, pm, is_listening, listen, recog, ttsVars, synthVars,
              phraseVars, engineVars>>

InitRecorder ==
    /\ rr_pc = "idle"
    /\ nframes = 0
    /\ all_voiced = TRUE
    /\ silence_count = 0
    /\ elapsed = 0
    /\ stop_reason = "none"
    /\ result = None
    /\ after_stop = -1
    /\ open_streams = 0
    /\ last_voiced = 0

\* a count that a voiced frame leaves as it is
CountSilenceNoReset(count, volume) ==
    IF volume > EnergyThreshold THEN count ELSE count + 1

\* silence_count after a frame of peak amplitude volume
CountSilence(count, volume) ==
    IF volume > EnergyThreshold THEN 0 ELSE count + 1

\* a silence test that fires on the first silent frame
SilenceStopAtOnce(n, count) == count > 0

\* the test that ends the loop on silence (audio_engine.py:178)
SilenceStop(n, count) ==
    n > min_recording_chunks /\ count > silence_threshold

\* a duration test that lets a frame be read at max_duration
WithinDurationInclusive(t) == t <= MaxDuration

\* `(time.time() - start_time) < max_duration` (audio_engine.py:161)
WithinDuration(t) == t < MaxDuration

\* self.chunk_size (audio_engine.py:63) samples of paInt16 (two bytes each)
chunk_size == 1024
SampleWidth == 2
FrameBytes == chunk_size * SampleWidth

\* a return that joins the frames whatever their number
ReturnValueAlwaysJoined(n) == Bytes(n * FrameBytes)

\* `if frames: return b''.join(frames)`, `else: return None`
ReturnValue(n) == IF n > 0 THEN Bytes(n * FrameBytes) ELSE None

\* the orchestrator starts a recording worker (start_voice_recording or
\* start_automatic_voice_recording); the worker has yet to call
\* record_audio_improved
StartSession ==
    /\ rr_pc \in {"idle", "returned"}
    /\ rr_pc' = "spawned"
    /\ nframes' = 0
    /\ all_voiced' = TRUE
    /\ silence_count' = 0
    /\ elapsed' = 0
    /\ stop_reason' = "none"
    /\ result' = None
    /\ after_stop' = -1
    /\ last_voiced' = 0
    /\ UNCHANGED <<ae_is_recording, recording_stopped, open_streams, recFrame>>

\* record_audio_improved up to the loop: the stream opens and the flags and
\* counters are set, or pa.open raises and the call returns None
RecorderStart ==
    /\ rr_pc = "spawned"
    /\ \/ /\ rr_pc' = "loop"
          /\ ae_is_recording' = TRUE
          /\ recording_stopped' = FALSE
          /\ open_streams' = open_streams + 1
       \/ /\ rr_pc' = "returned"
          /\ ae_is_recording' = FALSE
          /\ UNCHANGED <<recording_stopped, open_streams>>
    /\ nframes' = 0
    /\ all_voiced' = TRUE
    /\ silence_count' = 0
    /\ elapsed' = 0
    /\ stop_reason' = IF rr_pc' = "loop" THEN "none" ELSE "open_error"
    /\ result' = None
    /\ last_voiced' = 0
    /\ UNCHANGED <<after_stop, recFrame>>

\* one iteration of the loop: the while test passes, a frame is read and
\* appended, the silence count is updated and the silence test is made;
\* a failing read breaks the loop
RecorderFrame ==
    /\ rr_pc = "loop"
    /\ ae_is_recording
    /\ WithinDuration(elapsed)
    /\ \E d \in 1 .. MaxReadTime : elapsed' = elapsed + d
    /\ \/ /\ stop_reason' = "error"
          /\ UNCHANGED <<nframes, all_voiced, silence_count, after_stop,
                         last_voiced>>
       \/ \E volume \in Volumes :
            /\ nframes' = nframes + 1
            /\ all_voiced' = (all_voiced /\ volume > EnergyThreshold)
            /\ silence_count' = CountSilence(silence_count, volume)
            /\ last_voiced' = IF volume > EnergyThreshold THEN nframes + 1
                                                          ELSE last_voiced
            /\ stop_reason' = IF SilenceStop(nframes', silence_count')
                              THEN "silence" ELSE "none"
            /\ after_stop' = IF after_stop < 0 THEN after_stop
                             ELSE IF after_stop < MaxAfterStop
                                  THEN after_stop + 1 ELSE after_stop
    /\ rr_pc' = IF stop_reason' = "none" THEN "loop" ELSE "closing"
    /\ UNCHANGED <<ae_is_recording, recording_stopped, result, open_streams,
                   recFrame>>

\* the while test fails: the stop flag was cleared or max_duration is over
RecorderLoopExit ==
    /\ rr_pc = "loop"
    /\ ~ae_is_recording \/ ~WithinDuration(elapsed)
    /\ stop_reason' = IF ~ae_is_recording THEN "stopped" ELSE "max_duration"
    /\ rr_pc' = "closing"
    /\ UNCHANGED <<ae_is_recording, recording_stopped, nframes, all_voiced,
                   silence_count, elapsed, result, after_stop, open_streams,
                   last_voiced, recFrame>>

\* `recording_stream.stop_stream()` then `recording_stream.close()`: when
\* stop_stream raises, close is skipped and the stream stays open
StreamsAfterExit(streams, stopped) ==
    IF stopped THEN streams - 1 ELSE streams

\* the stream is stopped and closed, is_recording is cleared and the frames
\* are returned; when stop_stream or close raises, the outer except branch
\* clears is_recording and returns None
RecorderReturn ==
    /\ rr_pc = "closing"
    /\ rr_pc' = "returned"
    /\ ae_is_recording' = FALSE
    /\ \E stopped \in BOOLEAN :
         /\ stopped \/ open_streams <= MaxLeakedStreams
         /\ open_streams' = StreamsAfterExit(open_streams, stopped)
         /\ result' = IF stopped THEN ReturnValue(nframes) ELSE None
    /\ UNCHANGED <<recording_stopped, nframes, all_voiced, silence_count,
                   elapsed, stop_reason, after_stop, last_voiced, recFrame>>

\* AudioEngine.stop_recording, called by stop_voice_recording for the
\* session in progress (one stop click per session: the click clears the
\* orchestrator's is_recording)
stop_recording ==
    /\ rr_pc \in {"spawned", "loop"}
    /\ after_stop = -1
    /\ ae_is_recording' = FALSE
    /\ recording_stopped' = TRUE
    /\ after_stop' = 0
    /\ UNCHANGED <<rr_pc, nframes, all_voiced, silence_count, elapsed,
                   stop_reason, result, open_streams, last_voiced, recFrame>>

(* ----------------------------- orchestrator --------------------------- *)
IdleRec == [pc |-> "idle", kind |-> "auto"]

\* The microphone is held by the listener inside `with self.microphone`,
\* and by a recorder between pa.open and recording_stream.close.
ListenerHoldsMic == \E l \in DOMAIN listen : listen[l] = "mic"
RecorderHoldsMic == \E w \in RecIds : rec[w].pc = "loop"
\* record_audio_improved loops that are running
RecordingSessions == {w \in RecIds : rec[w].pc \in {"spawned", "loop"}}
\* recording worker threads that are alive
RecWorkers == {w \in RecIds : rec[w].pc # "idle"}

\* start_automatic_voice_recording without its guard
NeverAlreadyRecording == FALSE

\* the guard of start_automatic_voice_recording (main_window.py:744)
AlreadyRecording == is_recording
\* the guard of speak_response (main_window.py:1062)
AlreadySpeaking == is_speaking

\* threading.Thread(target=..., daemon=True).start() of a recording worker
SpawnRec(kind) ==
    \E w \in RecIds :
        /\ rec[w].pc = "idle"
        /\ \A v \in 1 .. w - 1 : rec[v].pc # "idle"
        /\ rec' = [rec EXCEPT ![w] = [pc |-> "spawned", kind |-> kind]]

\* FRIDAYMainWindow.speak_response, as run by its caller: the is_speaking
\* test, then the start of the speak_async thread
SpeakResponse ==
    IF AlreadySpeaking
    THEN UNCHANGED speak
    ELSE \E s \in SpeakIds :
            /\ speak[s] = "idle"
            /\ \A t \in 1 .. s - 1 : speak[t] # "idle"
            /\ speak' = [speak EXCEPT ![s] = "spawned"]

\* FRIDAYMainWindow.on_wake_word_detected, called by a recognition worker:
\* schedules start_automatic_voice_recording on the Tk thread
on_wake_word_detected ==
    afterQueue' = Append(afterQueue, is_recording \/ is_speaking)

\* FRIDAYMainWindow.start_automatic_voice_recording, run by the Tk thread
start_automatic_voice_recording ==
    /\ afterQueue # <<>>
    /\ afterQueue' = Tail(afterQueue)
    /\ IF AlreadyRecording
       THEN UNCHANGED <<is_recording, rec>>
       ELSE /\ is_recording' = TRUE
            /\ SpawnRec("auto")
    /\ UNCHANGED <<is_speaking, wake_word_active, speak, pm, ae_is_recording,
                   recording_stopped,
                   is_listening, listen, recog, ttsVars, detailVars>>

\* FRIDAYMainWindow.manual_voice_recording (the microphone button):
\* start_voice_recording when not recording, stop_voice_recording otherwise
manual_voice_recording ==
    /\ IF ~is_recording
       THEN /\ is_recording' = TRUE
            /\ SpawnRec("manual")
            /\ UNCHANGED <<ae_is_recording, recording_stopped>>
       ELSE /\ is_recording' = FALSE
            /\ ae_is_recording' = FALSE
            /\ recording_stopped' = TRUE
            /\ UNCHANGED rec
    /\ UNCHANGED <<is_speaking, wake_word_active, afterQueue, speak, pm,
                   is_listening, listen, recog, ttsVars, detailVars>>

\* AudioEngine.record_audio_improved up to the loop: the stream is opened
\* (or pa.open raises and the call returns None)
RecordOpen(w) ==
    /\ rec[w].pc = "spawned"
    /\ \/ /\ ae_is_recording' = TRUE
          /\ recording_stopped' = FALSE
          /\ rec' = [rec EXCEPT ![w].pc = "loop"]
       \/ /\ ae_is_recording' = FALSE
          /\ UNCHANGED recording_stopped
          /\ rec' = [rec EXCEPT ![w].pc = "finally"]
    /\ UNCHANGED <<is_recording, is_speaking, wake_word_active, afterQueue,
                   speak, pm, is_listening, listen, recog, ttsVars, detailVars>>

\* AudioEngine.record_audio_improved from the end of the loop: the loop
\* ends (stop flag, silence, max_duration or a read error), the stream is
\* closed and the frames are returned
RecordClose(w) ==
    /\ rec[w].pc = "loop"
    /\ ae_is_recording' = FALSE
    /\ UNCHANGED recording_stopped
    /\ \E got \in {"audio", "finally"} : rec' = [rec EXCEPT ![w].pc = got]
    /\ UNCHANGED <<is_recording, is_speaking, wake_word_active, afterQueue,
                   speak, pm, is_listening, listen, recog, ttsVars, detailVars>>

\* _automatic_voice_recording / _record_voice_command after the recording:
\* transcription and, on a non-empty transcript, process_message (on a new
\* thread for the automatic worker, inline for the manual one)
RecordProcess(w) ==
    /\ rec[w].pc = "audio"
    /\ rec' = [rec EXCEPT ![w].pc = "finally"]
    /\ \/ UNCHANGED <<pm, speak>>
       \/ /\ rec[w].kind = "auto"
          /\ pm < MaxPM
          /\ pm' = pm + 1
          /\ UNCHANGED speak
       \/ /\ rec[w].kind = "manual"
          /\ SpeakResponse
          /\ UNCHANGED pm
    /\ UNCHANGED <<is_recording, is_speaking, wake_word_active, afterQueue,
                   ae_is_recording, recording_stopped, is_listening, listen, recog, ttsVars, detailVars>>

\* a recording worker that ends without its finally block
RecordFinallyKeepsFlag(w) ==
    /\ rec[w].pc = "finally"
    /\ rec' = [rec EXCEPT ![w] = IdleRec]
    /\ UNCHANGED <<is_recording, is_speaking, wake_word_active, afterQueue,
                   speak, pm, ae_is_recording, recording_stopped,
                   is_listening, listen, recog, ttsVars, detailVars>>

\* the finally block of the recording worker
RecordFinally(w) ==
    /\ rec[w].pc = "finally"
    /\ is_recording' = FALSE
    /\ rec' = [rec EXCEPT ![w] = IdleRec]
    /\ UNCHANGED <<is_speaking, wake_word_active, afterQueue, speak, pm,
                   ae_is_recording, recording_stopped, is_listening, listen, recog, ttsVars, detailVars>>

\* FRIDAYMainWindow.send_message: a typed message starts process_message
send_message ==
    /\ pm < MaxPM
    /\ pm' = pm + 1
    /\ UNCHANGED <<is_recording, is_speaking, wake_word_active, afterQueue,
                   rec, speak, ae_is_recording, recording_stopped, is_listening, listen, recog,
                   ttsVars, detailVars>>

\* FRIDAYMainWindow.process_message on its own thread: the reply is spoken,
\* unless handling the message raised
process_message ==
    /\ pm > 0
    /\ pm' = pm - 1
    /\ \/ SpeakResponse
       \/ UNCHANGED speak
    /\ UNCHANGED <<is_recording, is_speaking, wake_word_active, afterQueue,
                   rec, ae_is_recording, recording_stopped, is_listening, listen, recog, ttsVars, detailVars>>

\* speak_async: is_speaking = True
SpeakBegin(s) ==
    /\ speak[s] = "spawned"
    /\ is_speaking' = TRUE
    /\ speak' = [speak EXCEPT ![s] = "tts"]
    /\ UNCHANGED <<is_recording, wake_word_active, afterQueue, rec, pm,
                   ae_is_recording, recording_stopped, is_listening, listen, recog, ttsVars, detailVars>>

\* speak_async: text_to_speech; without audio the finally block follows
SpeakSynthesize(s) ==
    /\ speak[s] = "tts"
    /\ \E r \in SynthesisResults(tts_mode, tts_client) :
           /\ tts_mode' = r.mode
           /\ IF Truthy(r.res)
              THEN /\ speak' = [speak EXCEPT ![s] = "play"]
                   /\ UNCHANGED is_speaking
              ELSE /\ speak' = [speak EXCEPT ![s] = "idle"]
                   /\ is_speaking' = FALSE
    /\ UNCHANGED <<is_recording, wake_word_active, afterQueue, rec, pm,
                   ae_is_recording, recording_stopped, is_listening, listen, recog, tts_client,
                   detailVars>>

\* speak_async: play_audio_improved, then the finally block
SpeakPlay(s) ==
    /\ speak[s] = "play"
    /\ speak' = [speak EXCEPT ![s] = "idle"]
    /\ is_speaking' = FALSE
    /\ UNCHANGED <<is_recording, wake_word_active, afterQueue, rec, pm,
                   ae_is_recording, recording_stopped, is_listening, listen, recog, ttsVars, detailVars>>

(* ------------------------------ wake listener ------------------------- *)
\* FRIDAYMainWindow.toggle_wake_word: start_listening when wake detection
\* is off, stop_listening (whose join may time out) when it is on
toggle_wake_word ==
    /\ IF ~wake_word_active
       THEN /\ wake_word_active' = TRUE
            /\ IF is_listening
               THEN UNCHANGED <<is_listening, listen>>
               ELSE /\ is_listening' = TRUE
                    /\ \E l \in ListenIds :
                         /\ listen[l] = "idle"
                         /\ \A k \in 1 .. l - 1 : listen[k] # "idle"
                         /\ listen' = [listen EXCEPT ![l] = "check"]
       ELSE /\ wake_word_active' = FALSE
            /\ is_listening' = FALSE
            /\ UNCHANGED listen
    /\ UNCHANGED <<is_recording, is_speaking, afterQueue, rec, speak, pm,
                   ae_is_recording, recording_stopped, recog, ttsVars, detailVars>>

\* _continuous_listen: the loop test, then `with self.microphone` (which
\* raises when the Microphone object is already inside a context manager)
ListenCheck(l) ==
    /\ listen[l] = "check"
    /\ IF ~is_listening
       THEN listen' = [listen EXCEPT ![l] = "idle"]
       ELSE /\ ~ListenerHoldsMic
            /\ listen' = [listen EXCEPT ![l] = "mic"]
    /\ UNCHANGED <<is_recording, is_speaking, wake_word_active, afterQueue,
                   rec, speak, pm, ae_is_recording, recording_stopped, is_listening, recog,
                   ttsVars, detailVars>>

\* a listen loop that runs the recognition itself: it captures again only
\* once the recognition in progress has returned
ListenCaptureAfterRecognition(l) ==
    /\ listen[l] = "mic"
    /\ \A q \in RecogIds : recog[q] = "idle"
    /\ listen' = [listen EXCEPT ![l] = "check"]
    /\ \/ UNCHANGED recog
       \/ \E r \in RecogIds :
            /\ recog[r] = "idle"
            /\ \A q \in 1 .. r - 1 : recog[q] # "idle"
            /\ recog' = [recog EXCEPT ![r] = "recognize"]
    /\ UNCHANGED <<is_recording, is_speaking, wake_word_active, afterQueue,
                   rec, speak, pm, ae_is_recording, recording_stopped, is_listening, ttsVars, detailVars>>

\* _continuous_listen: recognizer.listen returns an utterance, which is
\* handed to a new _process_audio_chunk thread, or times out; the
\* microphone is released either way
ListenCapture(l) ==
    /\ listen[l] = "mic"
    /\ listen' = [listen EXCEPT ![l] = "check"]
    /\ \/ UNCHANGED recog
       \/ \E r \in RecogIds :
            /\ recog[r] = "idle"
            /\ \A q \in 1 .. r - 1 : recog[q] # "idle"
            /\ recog' = [recog EXCEPT ![r] = "recognize"]
    /\ UNCHANGED <<is_recording, is_speaking, wake_word_active, afterQueue,
                   rec, speak, pm, ae_is_recording, recording_stopped, is_listening, ttsVars, detailVars>>

\* _process_audio_chunk: recognition, and the callback on a wake phrase
Recognize(r) ==
    /\ recog[r] = "recognize"
    /\ \/ /\ recog' = [recog EXCEPT ![r] = "idle"]
          /\ UNCHANGED afterQueue
       \/ /\ Len(afterQueue) < MaxAfter
          /\ on_wake_word_detected
          /\ recog' = [recog EXCEPT ![r] = "sleep"]
    /\ UNCHANGED <<is_recording, is_speaking, wake_word_active, rec, speak,
                   pm, ae_is_recording, recording_stopped, is_listening, listen, ttsVars, detailVars>>

\* _process_audio_chunk: time.sleep(1) is over, the worker ends
RecognizeDone(r) ==
    /\ recog[r] = "sleep"
    /\ recog' = [recog EXCEPT ![r] = "idle"]
    /\ UNCHANGED <<is_recording, is_speaking, wake_word_active, afterQueue,
                   rec, speak, pm, ae_is_recording, recording_stopped, is_listening, listen,
                   ttsVars, detailVars>>

\* the orchestrator, recorder and engine state a detector call leaves alone
detectorFrame == <<is_recording, is_speaking, wake_word_active, afterQueue,
                   rec, speak, pm, ae_is_recording, recording_stopped, recog,
                   ttsVars, synthVars, recVars, phraseVars, historyVars,
                   cleanVars, cycleVars, temp_files, heard>>

\* FridayWakeWordDetector.start_listening: a new _continuous_listen thread
\* is started and kept in listen_thread, unless is_listening is set
start_listening ==
    /\ ~joining
    /\ IF is_listening
       THEN UNCHANGED <<is_listening, listen, listen_thread>>
       ELSE /\ is_listening' = TRUE
            /\ \E l \in DOMAIN listen :
                 /\ listen[l] = "idle"
                 /\ \A k \in 1 .. l - 1 : listen[k] # "idle"
                 /\ listen' = [listen EXCEPT ![l] = "check"]
                 /\ listen_thread' = l
    /\ UNCHANGED <<joining, detectorFrame>>

\* FridayWakeWordDetector.stop_listening up to the join: the flag is
\* cleared and, when a thread was ever started, the caller waits for it
stop_listening ==
    /\ ~joining
    /\ is_listening' = FALSE
    /\ joining' = (listen_thread # 0)
    /\ UNCHANGED <<listen, listen_thread, detectorFrame>>

\* listen_thread.join(timeout=2.0) returns: the thread has ended, or the
\* two seconds are over while the thread is still inside recognizer.listen
\* (which waits up to 0.5 s for a phrase and up to 3 s for its end)
JoinReturn ==
    /\ joining
    /\ listen[listen_thread] \in {"idle", "mic"}
    /\ joining' = FALSE
    /\ UNCHANGED <<is_listening, listen, listen_thread, detectorFrame>>

(* ------------------------------ wake phrases -------------------------- *)
\* self.wake_phrases as __init__ leaves it (friday_wake_word.py:29-35)
InitialWakePhrases ==
    <<"friday", "hey friday", "ok friday", "hello friday", "hi friday">>

\* phrases handed to add_wake_phrase and remove_wake_phrase
RawPhrases ==
    {"friday", " Friday ", "hey friday", "ok friday", "hello friday",
     "hi friday", "jarvis", "JARVIS", "", "  "}

\* str.lower on the phrases of RawPhrases
Lower(raw) ==
    CASE raw = " Friday " -> " friday "
      [] raw = "JARVIS"   -> "jarvis"
      [] OTHER            -> raw

\* str.strip on the lowered phrases
Strip(raw) ==
    CASE raw = " friday " -> "friday"
      [] raw = "  "       -> ""
      [] OTHER            -> raw

\* phrase.lower().strip()
NormalizePhrase(raw) == Strip(Lower(raw))

\* `phrase in self.wake_phrases`
InPhrases(phrases, phrase) ==
    \E i \in 1 .. Len(phrases) : phrases[i] = phrase

\* list.remove: the first occurrence is taken out
RemoveFirst(phrases, phrase) ==
    LET i == CHOOSE k \in 1 .. Len(phrases) :
                  /\ phrases[k] = phrase
                  /\ \A j \in 1 .. k - 1 : phrases[j] # phrase
    IN  SubSeq(phrases, 1, i - 1) \o SubSeq(phrases, i + 1, Len(phrases))

NoMessage == [kind |-> "none", phrase |-> ""]

InitPhrases ==
    /\ wake_phrases = InitialWakePhrases
    /\ phrase_msg = NoMessage

\* a removal test without the test on the length
CanRemoveLast(phrases, phrase) == InPhrases(phrases, phrase)

\* `phrase in self.wake_phrases and len(self.wake_phrases) > 1`
CanRemove(phrases, phrase) ==
    InPhrases(phrases, phrase) /\ Len(phrases) > 1

\* FridayWakeWordDetector.add_wake_phrase
add_wake_phrase(raw) ==
    LET phrase == NormalizePhrase(raw) IN
    /\ IF phrase # "" /\ ~InPhrases(wake_phrases, phrase)
       THEN /\ wake_phrases' = Append(wake_phrases, phrase)
            /\ phrase_msg' = [kind |-> "added", phrase |-> phrase]
       ELSE UNCHANGED phraseVars
    /\ UNCHANGED <<orchVars, ttsVars, synthVars, recVars, engineVars>>

\* FridayWakeWordDetector.remove_wake_phrase
remove_wake_phrase(raw) ==
    LET phrase == NormalizePhrase(raw) IN
    /\ IF CanRemove(wake_phrases, phrase)
       THEN /\ wake_phrases' = RemoveFirst(wake_phrases, phrase)
            /\ phrase_msg' = [kind |-> "removed", phrase |-> phrase]
       ELSE /\ phrase_msg' = [kind |-> "cannot_remove", phrase |-> phrase]
            /\ UNCHANGED wake_phrases
    /\ UNCHANGED <<orchVars, ttsVars, synthVars, recVars, engineVars>>

\* transcripts handed to _contains_wake_word (lower case, stripped)
Transcripts ==
    {"friday", "hey friday", "ok friday", "hello friday", "hi friday",
     "jarvis"}

\* the transcripts with the word friday in them
FridayTranscripts == Transcripts \ {"jarvis"}

\* `a in b` for the phrases and transcripts above: a string occurs in
\* itself, and "friday" in every transcript that ends with it
Occurs(a, b) == a = b \/ (a = "friday" /\ b \in FridayTranscripts)

\* `for phrase in self.wake_phrases: if phrase in text`
DirectMatch(phrases, text) ==
    \E i \in 1 .. Len(phrases) : Occurs(phrases[i], text)

\* the four wake_word_patterns, fixed in the code: among the transcripts
\* above \bfriday\b finds the ones with the word friday, and the other
\* three patterns find nothing more
PatternMatch(text) == text \in FridayTranscripts

\* FridayWakeWordDetector._contains_wake_word
ContainsWakeWord(phrases, text) ==
    DirectMatch(phrases, text) \/ PatternMatch(text)

\* one _contains_wake_word call, made by a recognition worker
contains_wake_word(text) ==
    /\ heard' = [text |-> text,
                 match |-> ContainsWakeWord(wake_phrases, text),
                 related |-> \E i \in 1 .. Len(wake_phrases) :
                               \/ Occurs(wake_phrases[i], text)
                               \/ Occurs(text, wake_phrases[i])]
    /\ UNCHANGED <<baseVars, temp_files, listen_thread, joining>>

(* --------------------------- conversation history --------------------- *)
\* settings.conversation_history_limit (settings.py:48)
conversation_history_limit == 20

\* the frame of the AIEngine and orchestrator details below
engineFrame == <<orchVars, ttsVars, synthVars, recVars, phraseVars,
                 resourceVars>>

InitHistory ==
    /\ conversation_history = <<>>
    /\ turns = 0

\* history[-n:] for n > 0
LastTurns(history, n) ==
    IF Len(history) > n
    THEN SubSeq(history, Len(history) - n + 1, Len(history))
    ELSE history

\* `if len(...) > limit: self.conversation_history = ...[-limit:]`
MaintainLimit(history) ==
    IF Len(history) > conversation_history_limit
    THEN LastTurns(history, conversation_history_limit)
    ELSE history

\* AIEngine.get_response: without a model nothing is stored; the user turn
\* is appended first; when the responder raises, the except branch returns
\* the apology; otherwise the assistant turn is appended and the limit
\* maintained
get_response ==
    /\ turns + 2 <= MaxTurns
    /\ \E outcome \in {"no_model", "raise", "ok"} :
         LET asked == Append(conversation_history,
                             [role |-> "user", n |-> turns + 1])
         IN  CASE outcome = "no_model" ->
                    UNCHANGED historyVars
               [] outcome = "raise" ->
                    /\ conversation_history' = asked
                    /\ turns' = turns + 1
               [] outcome = "ok" ->
                    /\ conversation_history' =
                         MaintainLimit(Append(asked, [role |-> "assistant",
                                                      n |-> turns + 2]))
                    /\ turns' = turns + 2
    /\ UNCHANGED <<engineFrame, cleanVars, cycleVars>>

\* AIEngine.clear_history
clear_history ==
    /\ conversation_history' = <<>>
    /\ UNCHANGED <<turns, engineFrame, cleanVars, cycleVars>>

(* ------------------------------ one voice cycle ----------------------- *)
\* Optional[str]: None, or a str as its sequence of characters
NoText == [kind |-> "none", chars |-> <<>>]
Str(chars) == [kind |-> "str", chars |-> chars]

\* str.strip
RECURSIVE StripChars(_)
StripChars(chars) ==
    IF chars = <<>> THEN <<>>
    ELSE IF Head(chars) = " " THEN StripChars(Tail(chars))
    ELSE IF chars[Len(chars)] = " "
         THEN StripChars(SubSeq(chars, 1, Len(chars) - 1))
         ELSE chars

\* `len(audio_data) < 1000` in transcribe_audio
MinTranscribeBytes == 1000
\* `len(audio_data) > 2000` in the recording workers
ClearAudioBytes == 2000

\* transcript.text of the service
RawTranscripts == {<<>>, <<" ">>, <<"h">>, <<" ", "h">>, <<"h", " ">>}

\* What the environment of one transcribe_audio call does: whether a
\* transcriber exists, and the service's answer (a completed transcript, an
\* error status, or an exception raised by the call)
TranscriptOutcomes ==
    [ready : BOOLEAN, status : {"completed", "error", "raise"},
     text : RawTranscripts]

\* every buffer counts as sufficient
InsufficientNever(audio) == FALSE

\* `not audio_data or len(audio_data) < 1000`
InsufficientAudio(audio) == ~Truthy(audio) \/ audio.len < MinTranscribeBytes

\* AIEngine.transcribe_audio: whether the service was called, and the value
\* returned
TranscribeAudio(audio, so) ==
    IF ~so.ready THEN [called |-> FALSE, text |-> NoText]
    ELSE IF InsufficientAudio(audio) THEN [called |-> FALSE, text |-> NoText]
    ELSE IF so.status = "completed"
         THEN LET stripped == StripChars(so.text)
              IN  [called |-> TRUE,
                   text |-> IF stripped # <<>> THEN Str(stripped)
                                               ELSE NoText]
         ELSE [called |-> TRUE, text |-> NoText]

\* buffers handed to transcribe_audio by a direct caller
AudioSamples ==
    {None, Bytes(0), Bytes(MinTranscribeBytes - 1), Bytes(MinTranscribeBytes),
     Bytes(ClearAudioBytes), Bytes(ClearAudioBytes + 1)}

\* `audio_data and len(audio_data) > 2000`
ClearAudio(audio) == Truthy(audio) /\ audio.len > ClearAudioBytes

\* every transcript counts as understood
UnderstoodAlways(text) == TRUE

\* `user_input and len(user_input.strip()) > 0`
Understood(text) ==
    /\ text.kind = "str"
    /\ text.chars # <<>>
    /\ Len(StripChars(text.chars)) > 0

cycleFrame == <<engineFrame, historyVars, cleanVars>>

\* a recording worker starts: record_audio_improved returns its buffer
CycleRecord ==
    /\ cycle_pc \in {"idle", "listening"}
    /\ \E k \in 0 .. MaxCycleFrames : audio_data' = ReturnValue(k)
    /\ cycle_pc' = "recorded"
    /\ user_input' = NoText
    /\ cycle_log' = <<"record_audio_improved">>
    /\ UNCHANGED <<transcription, cycleFrame>>

\* the worker tests the buffer and calls transcribe_audio, or reports that
\* no clear audio was recorded and ends
CycleTranscribe ==
    /\ cycle_pc = "recorded"
    /\ IF ClearAudio(audio_data)
       THEN /\ cycle_pc' = "transcribing"
            /\ cycle_log' = Append(cycle_log, "transcribe_audio")
       ELSE /\ cycle_pc' = "listening"
            /\ cycle_log' = Append(cycle_log, "no_clear_audio")
    /\ UNCHANGED <<audio_data, user_input, transcription, cycleFrame>>

\* transcribe_audio returns to the worker
CycleTranscribed ==
    /\ cycle_pc = "transcribing"
    /\ \E so \in TranscriptOutcomes :
         LET r == TranscribeAudio(audio_data, so)
         IN  /\ user_input' = r.text
             /\ transcription' = [audio |-> audio_data, called |-> r.called,
                                  text |-> r.text]
    /\ cycle_pc' = "transcribed"
    /\ cycle_log' = Append(cycle_log, "transcribed")
    /\ UNCHANGED <<audio_data, cycleFrame>>

\* process_message is invoked before transcribe_audio has returned
CycleProcessEarly ==
    /\ cycle_pc = "transcribing"
    /\ cycle_pc' = "responding"
    /\ cycle_log' = Append(cycle_log, "process_message")
    /\ UNCHANGED <<audio_data, user_input, transcription, cycleFrame>>

\* the worker tests the transcript and hands it to process_message, or
\* reports that it could not understand and ends
CycleProcess ==
    /\ cycle_pc = "transcribed"
    /\ IF Understood(user_input)
       THEN /\ cycle_pc' = "responding"
            /\ cycle_log' = Append(cycle_log, "process_message")
       ELSE /\ cycle_pc' = "listening"
            /\ cycle_log' = Append(cycle_log, "not_understood")
    /\ UNCHANGED <<audio_data, user_input, transcription, cycleFrame>>

\* process_message: a camera or system command handled without a reply to
\* speak, or a reply (of get_response or of a command handler) handed to
\* speak_response, which returns at once when is_speaking is set and
\* otherwise starts speak_async, whose first call is text_to_speech
CycleRespond ==
    /\ cycle_pc = "responding"
    /\ \E reply \in {"none", "command", "get_response"}, busy \in BOOLEAN :
         IF reply = "none"
         THEN /\ cycle_pc' = "listening"
              /\ cycle_log' = Append(cycle_log, "handled")
         ELSE IF busy
              THEN /\ cycle_pc' = "listening"
                   /\ cycle_log' = cycle_log \o <<reply, "already_speaking">>
              ELSE /\ cycle_pc' = "synthesizing"
                   /\ cycle_log' = cycle_log \o <<reply, "text_to_speech">>
    /\ UNCHANGED <<audio_data, user_input, transcription, cycleFrame>>

\* text_to_speech returns to speak_async, with audio or without
CycleSynthesized ==
    /\ cycle_pc = "synthesizing"
    /\ \E audio \in BOOLEAN :
         /\ cycle_pc' = IF audio THEN "synthesized" ELSE "listening"
         /\ cycle_log' = Append(cycle_log,
                                IF audio THEN "synthesized"
                                         ELSE "generation_failed")
    /\ UNCHANGED <<audio_data, user_input, transcription, cycleFrame>>

\* speak_async plays the audio
CyclePlay ==
    /\ cycle_pc = "synthesized"
    /\ cycle_pc' = "listening"
    /\ cycle_log' = Append(cycle_log, "play_audio_improved")
    /\ UNCHANGED <<audio_data, user_input, transcription, cycleFrame>>

\* AIEngine.transcribe_audio called on its own with any buffer
transcribe_audio ==
    /\ cycle_pc \in {"idle", "listening"}
    /\ \E audio \in AudioSamples, so \in TranscriptOutcomes :
         LET r == TranscribeAudio(audio, so)
         IN  transcription' = [audio |-> audio, called |-> r.called,
                               text |-> r.text]
    /\ UNCHANGED <<cycle_pc, audio_data, user_input, cycle_log, cycleFrame>>

(* --------------------------- text normalisation ----------------------- *)
\* str.replace(old, new): the occurrences of old are found from the left,
\* without overlap, in one pass
RECURSIVE Replace(_, _, _)
Replace(chars, old, new) ==
    IF Len(chars) < Len(old) THEN chars
    ELSE IF SubSeq(chars, 1, Len(old)) = old
         THEN new \o Replace(SubSeq(chars, Len(old) + 1, Len(chars)), old, new)
         ELSE <<Head(chars)>> \o Replace(Tail(chars), old, new)

\* the markdown markers, in the order they are removed ("bq" stands for
\* the backquote character)
MarkupMarkers == <<<<"*">>, <<"_">>, <<"#">>, <<"bq", "bq", "bq">>, <<"bq">>>>

\* the replacements dict, in insertion order
replacements ==
    <<<<<<"e", ".", "g", ".">>, <<"f", "o", "r", " ", "e", "x", "a", "m", "p", "l", "e">>>>,
      <<<<"i", ".", "e", ".">>, <<"t", "h", "a", "t", " ", "i", "s">>>>,
      <<<<"e", "t", "c", ".">>, <<"e", "t", "c", "e", "t", "e", "r", "a">>>>,
      <<<<"v", "s", ".">>, <<"v", "e", "r", "s", "u", "s">>>>,
      <<<<"M", "r", ".">>, <<"M", "i", "s", "t", "e", "r">>>>,
      <<<<"D", "r", ".">>, <<"D", "o", "c", "t", "o", "r">>>>,
      <<<<"P", "r", "o", "f", ".">>, <<"P", "r", "o", "f", "e", "s", "s", "o", "r">>>>>>

\* the three punctuation replacements, in order
PunctuationFixes ==
    <<<<<<".", ".", ".">>, <<".">>>>,
      <<<<"!", "!">>, <<"!">>>>,
      <<<<"?", "?">>, <<"?">>>>>>

\* a list of replacements applied one after the other, each to the result
\* of the one before
RECURSIVE ReplaceAll(_, _)
ReplaceAll(chars, pairs) ==
    IF pairs = <<>> THEN chars
    ELSE ReplaceAll(Replace(chars, Head(pairs)[1], Head(pairs)[2]),
                    Tail(pairs))

TerminalPunctuation == {".", "!", "?"}

\* `clean_text and not clean_text.endswith(('.', '!', '?'))`
NeedsEnding(chars) ==
    chars # <<>> /\ chars[Len(chars)] \notin TerminalPunctuation

\* AIEngine._clean_text_for_tts
CleanTextForTts(chars) ==
    LET unmarked == ReplaceAll(chars, [i \in 1 .. Len(MarkupMarkers) |->
                                         <<MarkupMarkers[i], <<>>>>])
        expanded == ReplaceAll(unmarked, replacements)
        collapsed == ReplaceAll(expanded, PunctuationFixes)
        stripped == StripChars(collapsed)
    IN  IF NeedsEnding(stripped) THEN Append(stripped, ".") ELSE stripped

\* "Dr. Smith vs. Dr. Jones..."
ScenarioD ==
    <<"D", "r", ".", " ", "S", "m", "i", "t", "h", " ",
      "v", "s", ".", " ", "D", "r", ".", " ", "J", "o",
      "n", "e", "s", ".", ".", ".">>

\* the characters the short texts are made of
CleanAlphabet == {".", "!", "?", "a", "*", " "}

RECURSIVE TextsUpTo(_)
TextsUpTo(n) ==
    IF n = 0 THEN {<<>>}
    ELSE LET shorter == TextsUpTo(n - 1)
         IN  shorter \cup {Append(t, c) : t \in shorter, c \in CleanAlphabet}

\* the texts handed to _clean_text_for_tts: every short text, every tabled
\* abbreviation, and Scenario D
CleanInputs ==
    TextsUpTo(MaxTextLen)
      \cup {replacements[i][1] : i \in 1 .. Len(replacements)}
      \cup {ScenarioD}

\* one call of _clean_text_for_tts on tts_text
clean_text_for_tts ==
    /\ clean_text = NoText
    /\ clean_text' = Str(CleanTextForTts(tts_text))
    /\ UNCHANGED <<tts_text, provider_text, engineFrame, historyVars,
                   cycleVars>>

\* AIEngine.text_to_speech up to the provider call: a blank text returns
\* None; otherwise the provider chosen by the mode (every branch of the
\* dispatch) is called with _clean_text_for_tts(text)
ProviderText(chars) ==
    IF IsBlank(chars) THEN NoText ELSE Str(CleanTextForTts(chars))

\* one text_to_speech call on tts_text
text_to_speech ==
    /\ provider_text = NoText
    /\ provider_text' = ProviderText(tts_text)
    /\ UNCHANGED <<tts_text, clean_text, engineFrame, historyVars,
                   cycleVars>>


(* ------------------------------ temporary files ----------------------- *)
\* the operations that create a temporary file with
\* tempfile.NamedTemporaryFile(delete=False)
TempOps == {"transcribe_audio", "_gtts_tts", "_local_tts"}

\* What happens after the file was created: the engine or service works and
\* the file is read ("ok"), the data read is too short ("short"), or a
\* statement between the creation and os.remove raises ("raise":
\* wave.open or transcriber.transcribe, tts.save, save_to_file or
\* runAndWait, open)
TempOutcomes == {"ok", "short", "raise"}

InitTemp ==
    temp_files = [pc |-> "idle", op |-> "none", made |-> 0, dir |-> {}]

\* Whether the operation reaches its os.remove(temp_path): the call sits
\* inside the try block, after the engine call and the read, and there is no
\* finally clause; in the two synthesis providers it precedes the length
\* test
RemovesTempFile(op, outcome) == outcome \in {"ok", "short"}

\* the operation creates its temporary file
TempCreate ==
    /\ temp_files.pc = "idle"
    /\ temp_files.made < MaxTempFiles
    /\ \E op \in TempOps :
         temp_files' = [pc |-> "created", op |-> op,
                        made |-> temp_files.made + 1,
                        dir |-> temp_files.dir \cup {temp_files.made + 1}]
    /\ UNCHANGED <<baseVars, listen_thread, joining, heard>>

\* the operation returns (a value, None, or the value of _system_tts)
TempReturn ==
    /\ temp_files.pc = "created"
    /\ \E outcome \in TempOutcomes :
         temp_files' =
           [temp_files EXCEPT
              !.pc = "idle",
              !.dir = IF RemovesTempFile(temp_files.op, outcome)
                      THEN @ \ {temp_files.made} ELSE @]
    /\ UNCHANGED <<baseVars, listen_thread, joining, heard>>

(* ------------------------------ specification ------------------------- *)
\* AIEngine.__init__ followed by _initialize_tts, which leaves one of
\* "elevenlabs", "gtts" and "system"
InitTTS ==
    /\ tts_mode \in {"elevenlabs", "gtts", "system"}
    /\ tts_client \in BOOLEAN

\* a run in which _initialize_tts found neither ElevenLabs nor gTTS
\* (ai_engine.py:150-151)
InitNativeTTS ==
    /\ tts_mode = "system"
    /\ tts_client = FALSE

\* FridayWakeWordDetector.__init__, with room for the threads of ids
InitDetector(ids) ==
    /\ is_listening = FALSE
    /\ listen = [l \in ids |-> "idle"]
    /\ recog = [r \in RecogIds |-> "idle"]

\* FRIDAYMainWindow.__init__ and AudioEngine.__init__
InitWindow ==
    /\ is_recording = FALSE
    /\ is_speaking = FALSE
    /\ wake_word_active = FALSE
    /\ afterQueue = <<>>
    /\ rec = [w \in RecIds |-> IdleRec]
    /\ speak = [s \in SpeakIds |-> "idle"]
    /\ pm = 0
    /\ ae_is_recording = FALSE
    /\ recording_stopped = FALSE

\* FRIDAYMainWindow.__init__, AudioEngine.__init__, the detector's __init__
InitOrch == InitWindow /\ InitDetector(ListenIds)

\* the details no call has touched yet
InitEngine ==
    /\ InitHistory
    /\ InitTemp
    /\ listen_thread = 0
    /\ joining = FALSE
    /\ heard = [text |-> "", match |-> FALSE, related |-> FALSE]
    /\ clean_text = [kind |-> "none", chars |-> <<>>]
    /\ provider_text = [kind |-> "none", chars |-> <<>>]
    /\ cycle_pc = "idle"
    /\ audio_data = None
    /\ user_input = [kind |-> "none", chars |-> <<>>]
    /\ cycle_log = <<>>
    /\ transcription = [audio |-> None, called |-> FALSE,
                        text |-> [kind |-> "none", chars |-> <<>>]]

Init == /\ InitOrch /\ InitNativeTTS /\ InitSynth /\ InitRecorder
        /\ InitPhrases /\ InitEngine /\ tts_text = <<>>

WakeNext ==
    \/ toggle_wake_word
    \/ \E l \in ListenIds : ListenCheck(l) \/ ListenCapture(l)
    \/ \E r \in RecogIds : Recognize(r) \/ RecognizeDone(r)
    \/ start_automatic_voice_recording
    \/ \E w \in RecIds : RecordOpen(w) \/ RecordClose(w) \/ RecordProcess(w)
                           \/ RecordFinally(w)
    \/ send_message
    \/ process_message
    \/ \E s \in SpeakIds : SpeakBegin(s) \/ SpeakSynthesize(s) \/ SpeakPlay(s)

Next == WakeNext \/ manual_voice_recording

\* every operation of the orchestrator
Spec == Init /\ [][Next]_vars

\* the orchestrator without the microphone button
SpecWake == Init /\ [][WakeNext]_vars

\* a recognition worker invokes the trigger callback (the listener that
\* started it is left out)
WakeTrigger ==
    /\ Len(afterQueue) < MaxAfter
    /\ on_wake_word_detected
    /\ UNCHANGED <<is_recording, is_speaking, wake_word_active, rec, speak,
                   pm, ae_is_recording, recording_stopped, is_listening,
                   listen, recog, ttsVars, detailVars>>

\* the pipeline cycles: wake triggers and clicks on the microphone button,
\* and the threads they start
CycleNext ==
    \/ WakeTrigger
    \/ manual_voice_recording
    \/ start_automatic_voice_recording
    \/ \E w \in RecIds : RecordOpen(w) \/ RecordClose(w) \/ RecordProcess(w)
                           \/ RecordFinally(w)
    \/ process_message
    \/ \E s \in SpeakIds : SpeakBegin(s) \/ SpeakSynthesize(s) \/ SpeakPlay(s)

\* the Tk event loop and every thread started keep running; every external
\* call returns or fails (each step of a thread is enabled until taken)
CycleFairness ==
    /\ WF_vars(start_automatic_voice_recording)
    /\ WF_vars(process_message)
    /\ \A w \in RecIds :
         WF_vars(RecordOpen(w) \/ RecordClose(w) \/ RecordProcess(w)
                   \/ RecordFinally(w))
    /\ \A s \in SpeakIds :
         WF_vars(SpeakBegin(s) \/ SpeakSynthesize(s) \/ SpeakPlay(s))

SpecCycleFair == Init /\ [][CycleNext]_vars /\ CycleFairness

\* speak_async runs one after the other, from every mode _initialize_tts
\* can leave
InitTTSRun == /\ InitOrch /\ InitTTS /\ InitSynth /\ InitRecorder
              /\ InitPhrases /\ InitEngine /\ tts_text = <<>>
NextTTS == SynthesizeCall \/ PlayCall \/ CleanupFile \/ PlayerDone
SpecTTS == InitTTSRun /\ [][NextTTS]_vars

\* record_audio_improved calls one after the other, with stop requests
NextRecorder ==
    \/ StartSession
    \/ RecorderStart
    \/ RecorderFrame
    \/ RecorderLoopExit
    \/ RecorderReturn
    \/ stop_recording
SpecRecorder == Init /\ [][NextRecorder]_vars

\* add_wake_phrase, remove_wake_phrase and _contains_wake_word calls in any
\* order
NextPhrases ==
    \/ \E raw \in RawPhrases : add_wake_phrase(raw) \/ remove_wake_phrase(raw)
    \/ \E text \in Transcripts : contains_wake_word(text)
SpecPhrases == Init /\ [][NextPhrases]_vars

\* get_response calls one after the other, with clear_history in between
NextHistory == get_response \/ clear_history
SpecHistory == Init /\ [][NextHistory]_vars

\* voice cycles one after the other, and direct transcribe_audio calls
NextVoice ==
    \/ CycleRecord \/ CycleTranscribe \/ CycleTranscribed \/ CycleProcess
    \/ CycleRespond \/ CycleSynthesized \/ CyclePlay \/ transcribe_audio
SpecVoice == Init /\ [][NextVoice]_vars

\* one _clean_text_for_tts call and one text_to_speech call on any of the
\* input texts
InitClean ==
    /\ InitOrch /\ InitNativeTTS /\ InitSynth /\ InitRecorder
    /\ InitPhrases /\ InitEngine /\ tts_text \in CleanInputs
NextClean == clean_text_for_tts \/ text_to_speech
SpecClean == InitClean /\ [][NextClean]_vars


\* transcriptions and provider calls one after the other
NextTemp == TempCreate \/ TempReturn
SpecTemp == Init /\ [][NextTemp]_vars


\* start_listening and stop_listening called in any order on the
\* detector, and the threads they start
InitListen ==
    /\ InitWindow /\ InitDetector(LoopIds) /\ InitNativeTTS /\ InitSynth
    /\ InitRecorder /\ InitPhrases /\ InitEngine /\ tts_text = <<>>
NextListen ==
    \/ start_listening
    \/ stop_listening
    \/ JoinReturn
    \/ \E l \in LoopIds : ListenCheck(l) \/ ListenCapture(l)
    \/ \E r \in RecogIds : Recognize(r) \/ RecognizeDone(r)
SpecListen == InitListen /\ [][NextListen]_vars

(* -------------------------------- claims ------------------------------ *)
\* C1: recording and synthesizing/speaking are never active together:
\* is_recording and is_speaking are never both true.
C1_RecordingExcludesSpeaking == ~(is_recording /\ is_speaking)

\* C2: a wake trigger that arrived while the orchestrator was recording,
\* synthesizing or speaking is a no-op when its turn comes: it starts no
\* recording worker and changes no phase flag.
C2_BusyTriggerIgnored ==
    [][(start_automatic_voice_recording /\ Head(afterQueue))
          => UNCHANGED <<is_recording, is_speaking, rec>>]_vars

\* C3: a wake trigger handled while no recording is flagged starts exactly
\* one recording worker, and whatever the number of triggers delivered, at
\* most one recording session is active at any time.
C3_OneSessionPerTrigger ==
    /\ [](Cardinality(RecordingSessions) <= 1)
    /\ [][(start_automatic_voice_recording /\ ~is_recording)
            => /\ is_recording'
               /\ Cardinality(RecWorkers') = Cardinality(RecWorkers) + 1
               /\ Cardinality(RecordingSessions') = 1]_vars

\* C3 witness: a session is recording while two further triggers wait in
\* the Tk queue.
C3_Witness ==
    /\ \E w \in RecIds : rec[w].pc = "loop"
    /\ Len(afterQueue) = 2

\* C4: the wake listener and the recorder never hold the microphone at the
\* same time.
C4_MicrophoneExclusive == ~(ListenerHoldsMic /\ RecorderHoldsMic)

\* whether the call of provider p with outcomes o counted as a success
ProviderSucceeded(p, o) ==
    CASE p = "elevenlabs" -> o.el.st = "data"
      [] p = "gtts"       -> o.gt.st = "data" /\ ValidAudio(o.gt.len)
      [] p = "local"      -> o.lo.st = "data" /\ ValidAudio(o.lo.len)
      [] p = "system"     -> o.sys
\* what provider p produced
ProviderData(p, o) ==
    CASE p = "elevenlabs" -> o.el
      [] p = "gtts"       -> o.gt
      [] p = "local"      -> o.lo
      [] OTHER            -> Raise

C6_DemotesOnePosition ==
    (/\ sa_pc = "synthesized"
     /\ call.att # <<>>
     /\ call.att[1] = call.start
     /\ call.start # "system"
     /\ ~ProviderSucceeded(call.att[1], call.o))
        => ModeRank(tts_mode) = ModeRank(call.start) + 1

\* C7: tts_mode never moves back to a more preferred mode, and no call
\* attempts a provider more preferred than the mode it started in.
C7_NeverBackward ==
    /\ [][ModeRank(tts_mode') >= ModeRank(tts_mode)]_vars
    /\ [](\A i \in 1 .. Len(call.att) :
            ModeRank(call.att[i]) >= ModeRank(call.start))

\* C7 witness: a call made after the demotion to "local", with an
\* ElevenLabs client at hand.
C7_Witness ==
    /\ sa_pc = "synthesized"
    /\ call.start = "local"
    /\ tts_client
    /\ call.att # <<>>

\* C8: for the "played" sentinel play_audio_improved writes no temporary
\* file and attempts no playback backend.
C8_SentinelNotPlayed ==
    (sa_pc = "done" /\ call.res = Sentinel)
        => (~play.wrote /\ play.tried = <<>>)

\* C9: a response of the first provider that is under the size floor is
\* not returned as audio: the next provider is attempted.
C9_ShortResponseRejected ==
    (/\ sa_pc = "synthesized"
     /\ call.att # <<>>
     /\ ProviderData(call.att[1], call.o).st = "data"
     /\ ~ValidAudio(ProviderData(call.att[1], call.o).len))
        => /\ call.res.kind # "bytes"
              \/ call.res.len # ProviderData(call.att[1], call.o).len
           /\ Len(call.att) >= 2

\* C10: without cancellation, read error and max_duration expiry, the
\* loop ends at exactly the first frame at which len(frames) >=
\* min_recording_chunks and silence_count >= silence_threshold: it does not
\* read on once that holds, and it does not end on silence before.
C10_StopsAtFirstEligibleFrame ==
    /\ rr_pc = "loop" =>
          ~(nframes >= min_recording_chunks
            /\ silence_count >= silence_threshold)
    /\ stop_reason = "silence" =>
          (nframes >= min_recording_chunks
           /\ silence_count >= silence_threshold)

\* C11: whatever the frames, one silent from its first frame included, a
\* recording never ends on the silence condition with fewer than
\* min_recording_chunks frames captured.
C11_NoSilenceStopBeforeMinimum ==
    stop_reason = "silence" => nframes >= min_recording_chunks

\* C11 witness: a recording silent from its first frame has ended on the
\* silence condition.
C11_Witness ==
    /\ rr_pc = "closing"
    /\ stop_reason = "silence"
    /\ silence_count = nframes

\* C12: fed only frames at or under the energy threshold, without stop
\* request, read error or max_duration expiry, the recorder stops after
\* exactly frame min_recording_chunks + silence_threshold = 40 and returns
\* a buffer of exactly 40 frames.
C12_AllSilentStopsAtFrame40 ==
    (/\ rr_pc \in {"loop", "closing", "returned"}
     /\ silence_count = nframes
     /\ stop_reason \in {"none", "silence"}
     /\ after_stop = -1)
        => /\ rr_pc = "loop" =>
                nframes < min_recording_chunks + silence_threshold
           /\ stop_reason = "silence" =>
                nframes = min_recording_chunks + silence_threshold
           /\ rr_pc = "returned" =>
                result = Bytes((min_recording_chunks + silence_threshold)
                               * FrameBytes)

\* C13: with every frame above the energy threshold and neither stop
\* request nor read error, the loop goes on reading while the elapsed time
\* is under max_duration and ends once it has reached max_duration: it
\* does not end earlier and reads no frame afterwards.
C13_VoicedRunsToMaxDuration ==
    /\ [][(/\ rr_pc = "loop"
           /\ rr_pc' = "closing"
           /\ all_voiced'
           /\ stop_reason' \notin {"error", "stopped"})
             => (stop_reason' = "max_duration" /\ elapsed >= MaxDuration)]_vars
    /\ [][(rr_pc = "loop" /\ elapsed' # elapsed) => elapsed < MaxDuration]_vars
    /\ []((/\ rr_pc = "loop"
           /\ all_voiced
           /\ ae_is_recording
           /\ elapsed < MaxDuration) => ENABLED RecorderFrame)

\* C13 witness: a recording of voiced frames only has ended on max_duration.
C13_Witness ==
    /\ rr_pc = "closing"
    /\ stop_reason = "max_duration"
    /\ all_voiced
    /\ nframes > 0
    /\ after_stop = -1

\* C14: record_audio_improved never returns an empty buffer: with no frame
\* captured it returns None, otherwise the bytes of every frame it read.
C14_NeverEmptyBuffer ==
    /\ ~(result.kind = "bytes" /\ result.len = 0)
    /\ rr_pc = "returned" =>
          result = IF nframes = 0 THEN None ELSE Bytes(nframes * FrameBytes)

\* C14 witness: the first read failed and the call has returned with no
\* frame captured.
C14_Witness ==
    /\ rr_pc = "returned"
    /\ stop_reason = "error"
    /\ nframes = 0

\* C15: after a stop_recording request made at any moment of a session, the
\* loop of that session reads at most one further frame.
C15_StopRequestEndsLoop == after_stop <= 1

\* the trigger callback is invoked: on_wake_word_detected queues one more
\* start_automatic_voice_recording
TriggerDelivered == Len(afterQueue') = Len(afterQueue) + 1

\* C16: once a wake-phrase match has invoked the callback, no further
\* callback is invoked before the pause of the matching worker is over and
\* the cycle that trigger started is finished (its start handled, its
\* recording worker ended).
C16_NoTriggerBeforeCycleEnds ==
    [][TriggerDelivered
         => /\ \A r \in RecogIds : recog[r] # "sleep"
            /\ afterQueue = <<>>
            /\ ~is_recording
            /\ RecWorkers = {}]_vars

\* C17: once stop_listening has returned, the callback is not invoked
\* again: a recognition worker still in flight discards its result.
C17_NoCallbackAfterStop == [][TriggerDelivered => is_listening]_vars

C19_WakePhrasesNeverEmpty ==
    /\ [](Len(wake_phrases) >= 1)
    /\ [][\A raw \in RawPhrases :
            (remove_wake_phrase(raw) /\ Len(wake_phrases) = 1)
               => /\ wake_phrases' = wake_phrases
                  /\ phrase_msg'.kind = "cannot_remove"]_vars

\* C19 witness: the removal of the only phrase left has been rejected.
C19_Witness ==
    /\ Len(wake_phrases) = 1
    /\ phrase_msg = [kind |-> "cannot_remove", phrase |-> wake_phrases[1]]

\* C20: a temporary file play_audio_improved created is deleted in the
\* end on every exit path: once the call has returned, a file that still
\* exists has a cleanup_file thread that is going to delete it.
C20_TempFileCleanedUp ==
    (sa_pc = "done" /\ play.file = "exists") => play.cleanup

\* position of a playback backend in the chain
BackendRank(b) ==
    CASE b = "pygame"         -> 0
      [] b = "system_command" -> 1
      [] b = "default_app"    -> 2

\* C21: play_audio_improved attempts the backends in the order pygame,
\* system command, default application; a backend is attempted only when
\* every backend attempted before it reported failure; the value returned
\* is true exactly when a backend reported success.
C21_BackendsInOrder ==
    (sa_pc = "done" /\ play.wrote) =>
        /\ \A i, j \in 1 .. Len(play.tried) :
             i < j => /\ BackendRank(play.tried[i]) < BackendRank(play.tried[j])
                      /\ ~play.reports[i]
        /\ play.ok = (\E i \in 1 .. Len(play.tried) : play.reports[i])

\* C21 witness: pygame and the system command failed, the default
\* application succeeded.
C21_Witness ==
    /\ sa_pc = "done"
    /\ play.tried = <<"pygame", "system_command", "default_app">>
    /\ play.ok

\* C22: whichever backend succeeds, play_audio_improved returns once the
\* playback is started, without waiting for the clip to end.
C22_ReturnsOncePlaybackStarted ==
    (sa_pc = "done" /\ play.ok) => ~play.waited

C24_SynthesisFailureReturnsNone ==
    (/\ sa_pc \in {"synthesized", "done"}
     /\ ~IsBlank(call.text)
     /\ \/ call.o.pre
        \/ /\ call.att # <<>>
           /\ \A i \in 1 .. Len(call.att) :
                ~ProviderSucceeded(call.att[i], call.o))
        => /\ call.res = None
           /\ sa_pc = "done" => play.notice = "generation_failed"

\* C26: a text_to_speech call attempts first the provider of the mode
\* current at its start (ElevenLabs needing its client); in "local" mode
\* it attempts the local engine before any native speech.
C26_CurrentModeProviderFirst ==
    (/\ sa_pc = "synthesized"
     /\ call.att # <<>>
     /\ call.start = "elevenlabs" => tts_client)
        => call.att[1] = call.start

\* C25: after every get_response call, failed ones included,
\* conversation_history holds at most conversation_history_limit turns, and
\* it is the turns appended last, in the order they were appended.
C25_HistoryWithinLimit ==
    /\ Len(conversation_history) <= conversation_history_limit
    /\ \A i \in 1 .. Len(conversation_history) :
         conversation_history[i].n = turns - Len(conversation_history) + i

\* position of the first occurrence of an event in the cycle's log, 0 when
\* it has not happened
FirstAt(event) ==
    IF \E i \in 1 .. Len(cycle_log) : cycle_log[i] = event
    THEN CHOOSE i \in 1 .. Len(cycle_log) :
           /\ cycle_log[i] = event
           /\ \A j \in 1 .. i - 1 : cycle_log[j] # event
    ELSE 0
Happened(event) == FirstAt(event) > 0

\* C27: in a voice cycle process_message (and with it get_response and the
\* synthesis) is invoked only with a transcript that is a non-empty,
\* non-blank string; a cycle whose transcription failed or was empty ends
\* back at rest without a responder call or a synthesis.
C27_ResponderOnlyWithTranscript ==
    /\ Happened("process_message") =>
         /\ user_input.kind = "str"
         /\ \E i \in 1 .. Len(user_input.chars) : user_input.chars[i] # " "
    /\ (Happened("transcribed") /\ cycle_pc = "listening"
        /\ ~(user_input.kind = "str" /\ StripChars(user_input.chars) # <<>>))
         => /\ ~Happened("process_message")
            /\ ~Happened("get_response")
            /\ ~Happened("text_to_speech")
            /\ cycle_log[Len(cycle_log)] = "not_understood"

\* C27 witness: a cycle whose transcription was called and gave nothing
\* has ended at rest with the not-understood report.
C27_Witness ==
    /\ cycle_pc = "listening"
    /\ Happened("transcribed")
    /\ transcription.called
    /\ user_input = NoText
    /\ Happened("not_understood")

\* C28: in one cycle process_message is invoked only after transcribe_audio
\* has returned, and play_audio_improved only after text_to_speech has
\* returned.
C28_TranscribeThenRespondSynthThenPlay ==
    /\ Happened("process_message") =>
         /\ Happened("transcribed")
         /\ FirstAt("transcribed") < FirstAt("process_message")
         /\ cycle_pc # "transcribing"
    /\ Happened("play_audio_improved") =>
         /\ Happened("synthesized")
         /\ FirstAt("synthesized") < FirstAt("play_audio_improved")
    /\ cycle_pc = "synthesizing" => ~Happened("play_audio_improved")

\* C28 witness: a cycle went all the way to playback.
C28_Witness ==
    /\ cycle_pc = "listening"
    /\ Happened("process_message")
    /\ Happened("get_response")
    /\ Happened("play_audio_improved")

\* C29: the transcription service is called only for buffers of at least
\* 1000 bytes, and a recording worker hands transcribe_audio only buffers
\* longer than 2000 bytes.
C29_NoShortBufferTranscribed ==
    /\ transcription.called =>
         /\ transcription.audio.kind = "bytes"
         /\ transcription.audio.len >= MinTranscribeBytes
    /\ Happened("transcribe_audio") =>
         /\ audio_data.kind = "bytes"
         /\ audio_data.len > ClearAudioBytes

\* C29 witness: transcribe_audio was handed a 999-byte buffer by a direct
\* caller and returned None without calling the service.
C29_Witness ==
    /\ transcription.audio = Bytes(MinTranscribeBytes - 1)
    /\ ~transcription.called
    /\ transcription.text = NoText
    /\ cycle_pc = "listening"
    /\ Happened("no_clear_audio")

\* the same punctuation mark twice in a row
HasRepeatedPunctuation(chars) ==
    \E i \in 1 .. Len(chars) - 1 :
       chars[i] \in TerminalPunctuation /\ chars[i + 1] = chars[i]

\* C30: for a text that is not blank, the text returned by
\* _clean_text_for_tts has no '.', '!' or '?' twice in a row and ends with
\* one of them; a tabled abbreviation comes back expanded, and Scenario D
\* gives "Doctor Smith versus Doctor Jones.".
C30_CleanTextNormalized ==
    (clean_text.kind = "str" /\ StripChars(tts_text) # <<>>) =>
      /\ ~HasRepeatedPunctuation(clean_text.chars)
      /\ clean_text.chars # <<>>
      /\ clean_text.chars[Len(clean_text.chars)] \in TerminalPunctuation
      /\ \A i \in 1 .. Len(replacements) :
            tts_text = replacements[i][1]
              => clean_text.chars = Append(replacements[i][2], ".")
      /\ tts_text = ScenarioD
           => clean_text.chars = <<"D", "o", "c", "t", "o", "r", " ", "S", "m", "i",
                                   "t", "h", " ", "v", "e", "r", "s", "u", "s", " ",
                                   "D", "o", "c", "t", "o", "r", " ", "J", "o", "n",
                                   "e", "s", ".">>

\* C31: whenever none of transcribe_audio, _gtts_tts and _local_tts is in
\* progress, no temporary file created by them is left on disk.
C31_TempFilesDeleted ==
    temp_files.pc = "idle" => temp_files.dir = {}

\* C32: when no record_audio_improved call is between pa.open and its
\* return, no input stream is open and the engine's is_recording is false.
C32_StreamClosedOnReturn ==
    rr_pc \in {"idle", "spawned", "returned"} =>
      /\ open_streams = 0
      /\ rr_pc = "returned" => ~ae_is_recording

\* C33: the silence count is the number of frames appended since the last
\* frame above the energy threshold (all of them when there was none), and
\* a loop that ended on silence has more than silence_threshold such frames
\* behind it.
C33_SilenceCountIsTrailingRun ==
    /\ rr_pc \in {"loop", "closing", "returned"} /\ stop_reason # "open_error"
         => silence_count = nframes - last_voiced
    /\ stop_reason = "silence" => nframes - last_voiced > silence_threshold

\* C33 witness: past the minimum recording length, with silent frames
\* behind it, a voiced frame has just reset the count and the loop goes on.
C33_Witness ==
    /\ rr_pc = "loop"
    /\ ~all_voiced
    /\ nframes > min_recording_chunks
    /\ last_voiced = nframes
    /\ silence_count = 0

\* C34: at most one recording worker is inside the record_audio_improved
\* loop, and while the orchestrator's is_recording is false no recording
\* worker is capturing (about to open the stream or in the loop) or
\* transcribing.
C34_OneRecorderLoop ==
    /\ Cardinality({w \in RecIds : rec[w].pc = "loop"}) <= 1
    /\ ~is_recording =>
         \A w \in RecIds : rec[w].pc \notin {"spawned", "loop", "audio"}

\* C35: at most one speak_async worker is synthesizing or playing, and
\* is_speaking is true while one is.
C35_OneSpeakWorker ==
    /\ Cardinality({s \in SpeakIds : speak[s] \in {"tts", "play"}}) <= 1
    /\ (\E s \in SpeakIds : speak[s] \in {"tts", "play"}) => is_speaking

\* C36: at most one _continuous_listen loop is running.
C36_OneListenLoop ==
    Cardinality({l \in DOMAIN listen : listen[l] # "idle"}) <= 1

\* C37: the temporary file of play_audio_improved is not deleted while a
\* player that was handed the file is still rendering it.
C37_NoDeleteWhileRendering ==
    play.rendering => play.file = "exists"

\* C38: conversation_history consists of user turns each followed by its
\* assistant reply (a get_response call that failed left nothing behind).
C38_HistoryInPairs ==
    \A i \in 1 .. Len(conversation_history) :
       IF conversation_history[i].role = "user"
       THEN /\ i < Len(conversation_history)
            /\ conversation_history[i + 1].role = "assistant"
            /\ conversation_history[i + 1].n = conversation_history[i].n + 1
       ELSE /\ i > 1
            /\ conversation_history[i - 1].role = "user"

\* C39: the text that text_to_speech hands to a provider has at least one
\* character.
C39_ProviderTextNonEmpty ==
    provider_text.kind = "str" => provider_text.chars # <<>>

\* C40: a transcript fires the trigger only through the current wake
\* phrases: when no phrase of wake_phrases occurs in the transcript and the
\* transcript occurs in none of them (the phrase and every phrase
\* containing it were removed), _contains_wake_word returns false.
C40_MatchDependsOnPhrases ==
    ~heard.related => ~heard.match

====
